---- MODULE Spec2Model ----
(***************************************************************************)
(* Ukrainian Q&A web application: the three server programs of the         *)
(* repository (app.py with UkrainianQAModel, app_lightweight.py,           *)
(* simple_start.py), their request handlers and their matchers.            *)
(*                                                                         *)
(* Strings the code inspects (questions, keywords) are sequences of        *)
(* characters, one string per character; a character outside ASCII is      *)
(* written by its code point ("u043f" is CYRILLIC SMALL LETTER PE).        *)
(* Strings the code only passes along (answers, error messages) are        *)
(* sequences of pieces whose concatenation is the string, so that an       *)
(* f-string is the sequence of its literal and its interpolated parts.     *)
(***************************************************************************)
EXTENDS Naturals, Integers, Sequences, FiniteSets, TLC

(***************************************************************************)
(* Bounds of the model.                                                    *)
(***************************************************************************)
\* A question is one fragment of FirstFragments followed by at most
\* MaxFrags - 1 fragments of MoreFragments.
MaxFrags == 2

(***************************************************************************)
(* str.lower(), str.strip(), the substring test `k in s`.                  *)
(***************************************************************************)
\* The upper-case characters that occur in the questions of the model, each
\* with its lower-case form; str.lower() leaves every other character alone.
LowerOf ==
    ("A" :> "a") @@ ("B" :> "b") @@ ("C" :> "c") @@ ("D" :> "d") @@ ("E" :> "e") @@
    ("F" :> "f") @@ ("G" :> "g") @@ ("H" :> "h") @@ ("I" :> "i") @@ ("J" :> "j") @@
    ("K" :> "k") @@ ("L" :> "l") @@ ("M" :> "m") @@ ("N" :> "n") @@ ("O" :> "o") @@
    ("P" :> "p") @@ ("Q" :> "q") @@ ("R" :> "r") @@ ("S" :> "s") @@ ("T" :> "t") @@
    ("U" :> "u") @@ ("V" :> "v") @@ ("W" :> "w") @@ ("X" :> "x") @@ ("Y" :> "y") @@
    ("Z" :> "z") @@ ("u041f" :> "u043f") @@ ("u0414" :> "u0434") @@
    ("u042f" :> "u044f") @@ ("u041a" :> "u043a") @@ ("u0423" :> "u0443") @@
    ("u042e" :> "u044e")

LowerChar(c) == IF c \in DOMAIN LowerOf THEN LowerOf[c] ELSE c

\* s.lower()
Lower(s) == [i \in 1..Len(s) |-> LowerChar(s[i])]

\* The characters str.strip() removes (those of the model's questions).
Whitespace == {" ", "\t"}

RECURSIVE LStrip(_)
LStrip(s) == IF s # <<>> /\ Head(s) \in Whitespace THEN LStrip(Tail(s)) ELSE s

RECURSIVE RStrip(_)
RStrip(s) ==
    IF s # <<>> /\ s[Len(s)] \in Whitespace
    THEN RStrip(SubSeq(s, 1, Len(s) - 1))
    ELSE s

\* s.lstrip() in the place of s.strip()
Strip_left_only(s) == LStrip(s)

\* s.strip()
Strip(s) == RStrip(LStrip(s))

\* k in s, for strings k and s
Contains(k, s) ==
    \E i \in 1..(Len(s) - Len(k) + 1) :
        \A j \in 1..Len(k) : s[i + j - 1] = k[j]

(***************************************************************************)
(* The knowledge base of the keyword variants: a dict, which keeps its     *)
(* insertion order, so a sequence of entries in definition order.          *)
(***************************************************************************)
KnowledgeBase ==
<<
  [ topic |-> "capital",
    keywords |-> <<
         <<"c", "a", "p", "i", "t", "a", "l">>,
         <<"k", "y", "i", "v">>,
         <<"k", "i", "e", "v">>,
         <<"m", "a", "i", "n", " ", "c", "i", "t", "y">> >>,
    answer |-> <<"The capital of Ukraine is Kyiv (also spelled Kiev). It's the largest city in Ukraine and serves as the political, economic, and cultural center of the country.">> ],
  [ topic |-> "borscht",
    keywords |-> <<
         <<"b", "o", "r", "s", "c", "h", "t">>,
         <<"b", "o", "r", "s", "c", "h">>,
         <<"s", "o", "u", "p">>,
         <<"t", "r", "a", "d", "i", "t", "i", "o", "n", "a", "l", " ", "f", "o", "o", "d">> >>,
    answer |-> <<"Borscht is a famous Ukrainian beet soup that's considered a national dish. It's made with beets, cabbage, potatoes, and often includes meat. The soup has a distinctive red color and is served with sour cream and fresh dill.">> ],
  [ topic |-> "slava_ukraini",
    keywords |-> <<
         <<"u0441", "u043b", "u0430", "u0432", "u0430", " ", "u0443", "u043a", "u0440", "u0430", "u0457", "u043d", "u0456">>,
         <<"s", "l", "a", "v", "a", " ", "u", "k", "r", "a", "i", "n", "i">>,
         <<"g", "l", "o", "r", "y">>,
         <<"s", "l", "o", "g", "a", "n">> >>,
    answer |-> <<"'{U+0421}{U+043B}{U+0430}{U+0432}{U+0430} {U+0423}{U+043A}{U+0440}{U+0430}{U+0457}{U+043D}{U+0456}' (Slava Ukraini) means 'Glory to Ukraine' in Ukrainian. It's a patriotic slogan that has become a symbol of Ukrainian national identity and resistance. The traditional response is '{U+0413}{U+0435}{U+0440}{U+043E}{U+044F}{U+043C} {U+0441}{U+043B}{U+0430}{U+0432}{U+0430}' (Heroiam slava) which means 'Glory to the Heroes.'">> ],
  [ topic |-> "independence",
    keywords |-> <<
         <<"i", "n", "d", "e", "p", "e", "n", "d", "e", "n", "c", "e">>,
         <<"1", "9", "9", "1">>,
         <<"s", "o", "v", "i", "e", "t", " ", "u", "n", "i", "o", "n">>,
         <<"f", "r", "e", "e", "d", "o", "m">> >>,
    answer |-> <<"Ukraine gained independence from the Soviet Union on August 24, 1991, when the Ukrainian parliament declared independence. This followed the failed coup attempt in Moscow and the collapse of the Soviet Union. Ukraine became a sovereign nation after centuries of foreign rule.">> ],
  [ topic |-> "geography",
    keywords |-> <<
         <<"g", "e", "o", "g", "r", "a", "p", "h", "y">>,
         <<"b", "o", "r", "d", "e", "r", "s">>,
         <<"m", "o", "u", "n", "t", "a", "i", "n", "s">>,
         <<"r", "i", "v", "e", "r", "s">>,
         <<"b", "l", "a", "c", "k", " ", "s", "e", "a">> >>,
    answer |-> <<"Ukraine is the largest country entirely in Europe. It borders Russia, Belarus, Poland, Slovakia, Hungary, Romania, and Moldova. The Carpathian Mountains are in western Ukraine, the Black Sea borders the south, and the Dnieper River is the longest river. Ukraine has fertile soil known as 'chernozem.'">> ],
  [ topic |-> "culture",
    keywords |-> <<
         <<"c", "u", "l", "t", "u", "r", "e">>,
         <<"t", "r", "a", "d", "i", "t", "i", "o", "n", "a", "l">>,
         <<"e", "m", "b", "r", "o", "i", "d", "e", "r", "y">>,
         <<"v", "y", "s", "h", "y", "v", "a", "n", "k", "a">>,
         <<"b", "a", "n", "d", "u", "r", "a">> >>,
    answer |-> <<"Ukrainian culture is rich and diverse. Traditional crafts include embroidery (vyshyvanka), Easter egg decorating (pysanky), and pottery. The bandura is a traditional musical instrument. Ukrainian folk music and dance are important cultural expressions.">> ],
  [ topic |-> "language",
    keywords |-> <<
         <<"l", "a", "n", "g", "u", "a", "g", "e">>,
         <<"u", "k", "r", "a", "i", "n", "i", "a", "n">>,
         <<"p", "h", "r", "a", "s", "e", "s">>,
         <<"w", "o", "r", "d", "s">> >>,
    answer |-> <<"Ukrainian is the official language of Ukraine, belonging to the East Slavic group. Common phrases include: '{U+041F}{U+0440}{U+0438}{U+0432}{U+0456}{U+0442}' (Hello), '{U+0414}{U+044F}{U+043A}{U+0443}{U+044E}' (Thank you), '{U+0411}{U+0443}{U+0434}{U+044C} {U+043B}{U+0430}{U+0441}{U+043A}{U+0430}' (Please/You're welcome), '{U+0414}{U+043E} {U+043F}{U+043E}{U+0431}{U+0430}{U+0447}{U+0435}{U+043D}{U+043D}{U+044F}' (Goodbye).">> ],
  [ topic |-> "politics",
    keywords |-> <<
         <<"p", "o", "l", "i", "t", "i", "c", "s">>,
         <<"p", "r", "e", "s", "i", "d", "e", "n", "t">>,
         <<"z", "e", "l", "e", "n", "s", "k", "y">>,
         <<"g", "o", "v", "e", "r", "n", "m", "e", "n", "t">>,
         <<"d", "e", "m", "o", "c", "r", "a", "c", "y">> >>,
    answer |-> <<"Ukraine is a democratic republic with a president and parliament. The current president is Volodymyr Zelenskyy. Ukraine has been working towards EU and NATO membership and has made significant progress in democratic reforms.">> ],
  [ topic |-> "food",
    keywords |-> <<
         <<"f", "o", "o", "d">>,
         <<"c", "u", "i", "s", "i", "n", "e">>,
         <<"d", "i", "s", "h", "e", "s">>,
         <<"v", "a", "r", "e", "n", "i", "k", "i">>,
         <<"h", "o", "l", "u", "b", "t", "s", "i">> >>,
    answer |-> <<"Ukrainian cuisine features hearty, flavorful dishes. Popular foods include vareniki (dumplings), holubtsi (cabbage rolls), kasha (porridge), and various types of bread. Ukrainian food often uses ingredients like potatoes, cabbage, beets, and sour cream.">> ],
  [ topic |-> "history",
    keywords |-> <<
         <<"h", "i", "s", "t", "o", "r", "y">>,
         <<"h", "i", "s", "t", "o", "r", "i", "c", "a", "l">>,
         <<"p", "a", "s", "t">>,
         <<"a", "n", "c", "i", "e", "n", "t">>,
         <<"m", "e", "d", "i", "e", "v", "a", "l">> >>,
    answer |-> <<"Ukraine has a rich history dating back to ancient times. It was part of Kyivan Rus' in the medieval period, then came under various foreign rulers including the Polish-Lithuanian Commonwealth, Russian Empire, and Soviet Union. Ukraine has a strong cultural heritage with Cossack traditions.">> ]
>>

\* The keys in reverse definition order.
Keys_reversed(kb) == [i \in 1..Len(kb) |-> kb[Len(kb) + 1 - i].topic]

\* list(knowledge_base.keys())
Keys(kb) == [i \in 1..Len(kb) |-> kb[i].topic]

GreetingWords == << <<"h", "e", "l", "l", "o">>, <<"h", "i">>, <<"u043f", "u0440", "u0438", "u0432", "u0456", "u0442">>, <<"g", "r", "e", "e", "t", "i", "n", "g", "s">> >>

ThanksWords == << <<"t", "h", "a", "n", "k">>, <<"u0434", "u044f", "u043a", "u0443", "u044e">>, <<"t", "h", "a", "n", "k", "s">> >>

EmptyQuestionReply == <<"Please ask a question about Ukrainian topics.">>

GreetingReply == <<"{U+041F}{U+0440}{U+0438}{U+0432}{U+0456}{U+0442}! Hello! I'm your Ukrainian Q&A assistant. Ask me anything about Ukrainian culture, history, geography, or language! {U+1F1FA}{U+1F1E6}">>

ThanksReply == <<"{U+0411}{U+0443}{U+0434}{U+044C} {U+043B}{U+0430}{U+0441}{U+043A}{U+0430}! You're welcome! I'm happy to help you learn about Ukraine! {U+1F1FA}{U+1F1E6}">>

DefaultReply == <<"I don't have specific information about that topic in my knowledge base. Try asking about Ukrainian history, culture, geography, language, food, or politics. For example: 'What is the capital of Ukraine?' or 'Tell me about Ukrainian borscht'">>

\* The inner loop of find_best_match: the number of keywords of one entry
\* that occur in the lower-cased question.
Score(entry, question_lower) ==
    Cardinality({ i \in 1..Len(entry.keywords) :
                    Contains(entry.keywords[i], question_lower) })

\* The outer loop with `score >= best_score`: the last of the entries that
\* tie wins.
RECURSIVE BestUpTo_last_tie(_, _, _)
BestUpTo_last_tie(kb, question_lower, n) ==
    IF n = 0 THEN <<0, 0>>
    ELSE LET prev  == BestUpTo_last_tie(kb, question_lower, n - 1)
             score == Score(kb[n], question_lower)
         IN  IF score >= prev[2] THEN <<n, score>> ELSE prev

\* The outer loop of find_best_match over the first n entries: the pair
\* <<best_match, best_score>>, best_match an index into kb, 0 for None.
RECURSIVE BestUpTo(_, _, _)
BestUpTo(kb, question_lower, n) ==
    IF n = 0 THEN <<0, 0>>
    ELSE LET prev  == BestUpTo(kb, question_lower, n - 1)
             score == Score(kb[n], question_lower)
         IN  IF score > prev[2] THEN <<n, score>> ELSE prev

\* find_best_match whose loop stops one entry short of the end.
find_best_match_skips_last(kb, question) ==
    LET best == BestUpTo(kb, Lower(question), Len(kb) - 1)
    IN  IF best[2] > 0 THEN best[1] ELSE 0

\* find_best_match(question): the index of the topic, 0 for None.
find_best_match(kb, question) ==
    LET best == BestUpTo(kb, Lower(question), Len(kb))
    IN  IF best[2] > 0 THEN best[1] ELSE 0

\* any(word in question_lower for word in words)
AnyWordIn(words, question_lower) ==
    \E i \in 1..Len(words) : Contains(words[i], question_lower)

\* A get_answer that looks for the thanks words before the greeting words.
get_answer_thanks_first(kb, question) ==
    IF Strip(question) = <<>> THEN EmptyQuestionReply
    ELSE LET question_lower == Lower(question)
         IN  IF AnyWordIn(ThanksWords, question_lower) THEN ThanksReply
             ELSE IF AnyWordIn(GreetingWords, question_lower) THEN GreetingReply
             ELSE LET best_match == find_best_match(kb, question)
                  IN  IF best_match # 0 THEN kb[best_match].answer
                      ELSE DefaultReply

\* get_answer(question) of LightweightUkrainianQA and of UkrainianQA
get_answer(kb, question) ==
    IF Strip(question) = <<>> THEN EmptyQuestionReply
    ELSE LET question_lower == Lower(question)
         IN  IF AnyWordIn(GreetingWords, question_lower) THEN GreetingReply
             ELSE IF AnyWordIn(ThanksWords, question_lower) THEN ThanksReply
             ELSE LET best_match == find_best_match(kb, question)
                  IN  IF best_match # 0 THEN kb[best_match].answer
                      ELSE DefaultReply

(***************************************************************************)
(* UkrainianQA of simple_start.py: its own copy of the knowledge base and  *)
(* of the matcher, translated from its own text.                           *)
(***************************************************************************)
UkrainianQA_knowledge_base ==
<<
  [ topic |-> "capital",
    keywords |-> <<
         <<"c", "a", "p", "i", "t", "a", "l">>,
         <<"k", "y", "i", "v">>,
         <<"k", "i", "e", "v">>,
         <<"m", "a", "i", "n", " ", "c", "i", "t", "y">> >>,
    answer |-> <<"The capital of Ukraine is Kyiv (also spelled Kiev). It's the largest city in Ukraine and serves as the political, economic, and cultural center of the country.">> ],
  [ topic |-> "borscht",
    keywords |-> <<
         <<"b", "o", "r", "s", "c", "h", "t">>,
         <<"b", "o", "r", "s", "c", "h">>,
         <<"s", "o", "u", "p">>,
         <<"t", "r", "a", "d", "i", "t", "i", "o", "n", "a", "l", " ", "f", "o", "o", "d">> >>,
    answer |-> <<"Borscht is a famous Ukrainian beet soup that's considered a national dish. It's made with beets, cabbage, potatoes, and often includes meat. The soup has a distinctive red color and is served with sour cream and fresh dill.">> ],
  [ topic |-> "slava_ukraini",
    keywords |-> <<
         <<"u0441", "u043b", "u0430", "u0432", "u0430", " ", "u0443", "u043a", "u0440", "u0430", "u0457", "u043d", "u0456">>,
         <<"s", "l", "a", "v", "a", " ", "u", "k", "r", "a", "i", "n", "i">>,
         <<"g", "l", "o", "r", "y">>,
         <<"s", "l", "o", "g", "a", "n">> >>,
    answer |-> <<"'{U+0421}{U+043B}{U+0430}{U+0432}{U+0430} {U+0423}{U+043A}{U+0440}{U+0430}{U+0457}{U+043D}{U+0456}' (Slava Ukraini) means 'Glory to Ukraine' in Ukrainian. It's a patriotic slogan that has become a symbol of Ukrainian national identity and resistance. The traditional response is '{U+0413}{U+0435}{U+0440}{U+043E}{U+044F}{U+043C} {U+0441}{U+043B}{U+0430}{U+0432}{U+0430}' (Heroiam slava) which means 'Glory to the Heroes.'">> ],
  [ topic |-> "independence",
    keywords |-> <<
         <<"i", "n", "d", "e", "p", "e", "n", "d", "e", "n", "c", "e">>,
         <<"1", "9", "9", "1">>,
         <<"s", "o", "v", "i", "e", "t", " ", "u", "n", "i", "o", "n">>,
         <<"f", "r", "e", "e", "d", "o", "m">> >>,
    answer |-> <<"Ukraine gained independence from the Soviet Union on August 24, 1991, when the Ukrainian parliament declared independence. This followed the failed coup attempt in Moscow and the collapse of the Soviet Union. Ukraine became a sovereign nation after centuries of foreign rule.">> ],
  [ topic |-> "geography",
    keywords |-> <<
         <<"g", "e", "o", "g", "r", "a", "p", "h", "y">>,
         <<"b", "o", "r", "d", "e", "r", "s">>,
         <<"m", "o", "u", "n", "t", "a", "i", "n", "s">>,
         <<"r", "i", "v", "e", "r", "s">>,
         <<"b", "l", "a", "c", "k", " ", "s", "e", "a">> >>,
    answer |-> <<"Ukraine is the largest country entirely in Europe. It borders Russia, Belarus, Poland, Slovakia, Hungary, Romania, and Moldova. The Carpathian Mountains are in western Ukraine, the Black Sea borders the south, and the Dnieper River is the longest river. Ukraine has fertile soil known as 'chernozem.'">> ],
  [ topic |-> "culture",
    keywords |-> <<
         <<"c", "u", "l", "t", "u", "r", "e">>,
         <<"t", "r", "a", "d", "i", "t", "i", "o", "n", "a", "l">>,
         <<"e", "m", "b", "r", "o", "i", "d", "e", "r", "y">>,
         <<"v", "y", "s", "h", "y", "v", "a", "n", "k", "a">>,
         <<"b", "a", "n", "d", "u", "r", "a">> >>,
    answer |-> <<"Ukrainian culture is rich and diverse. Traditional crafts include embroidery (vyshyvanka), Easter egg decorating (pysanky), and pottery. The bandura is a traditional musical instrument. Ukrainian folk music and dance are important cultural expressions.">> ],
  [ topic |-> "language",
    keywords |-> <<
         <<"l", "a", "n", "g", "u", "a", "g", "e">>,
         <<"u", "k", "r", "a", "i", "n", "i", "a", "n">>,
         <<"p", "h", "r", "a", "s", "e", "s">>,
         <<"w", "o", "r", "d", "s">> >>,
    answer |-> <<"Ukrainian is the official language of Ukraine, belonging to the East Slavic group. Common phrases include: '{U+041F}{U+0440}{U+0438}{U+0432}{U+0456}{U+0442}' (Hello), '{U+0414}{U+044F}{U+043A}{U+0443}{U+044E}' (Thank you), '{U+0411}{U+0443}{U+0434}{U+044C} {U+043B}{U+0430}{U+0441}{U+043A}{U+0430}' (Please/You're welcome), '{U+0414}{U+043E} {U+043F}{U+043E}{U+0431}{U+0430}{U+0447}{U+0435}{U+043D}{U+043D}{U+044F}' (Goodbye).">> ],
  [ topic |-> "politics",
    keywords |-> <<
         <<"p", "o", "l", "i", "t", "i", "c", "s">>,
         <<"p", "r", "e", "s", "i", "d", "e", "n", "t">>,
         <<"z", "e", "l", "e", "n", "s", "k", "y">>,
         <<"g", "o", "v", "e", "r", "n", "m", "e", "n", "t">>,
         <<"d", "e", "m", "o", "c", "r", "a", "c", "y">> >>,
    answer |-> <<"Ukraine is a democratic republic with a president and parliament. The current president is Volodymyr Zelenskyy. Ukraine has been working towards EU and NATO membership and has made significant progress in democratic reforms.">> ],
  [ topic |-> "food",
    keywords |-> <<
         <<"f", "o", "o", "d">>,
         <<"c", "u", "i", "s", "i", "n", "e">>,
         <<"d", "i", "s", "h", "e", "s">>,
         <<"v", "a", "r", "e", "n", "i", "k", "i">>,
         <<"h", "o", "l", "u", "b", "t", "s", "i">> >>,
    answer |-> <<"Ukrainian cuisine features hearty, flavorful dishes. Popular foods include vareniki (dumplings), holubtsi (cabbage rolls), kasha (porridge), and various types of bread. Ukrainian food often uses ingredients like potatoes, cabbage, beets, and sour cream.">> ],
  [ topic |-> "history",
    keywords |-> <<
         <<"h", "i", "s", "t", "o", "r", "y">>,
         <<"h", "i", "s", "t", "o", "r", "i", "c", "a", "l">>,
         <<"p", "a", "s", "t">>,
         <<"a", "n", "c", "i", "e", "n", "t">>,
         <<"m", "e", "d", "i", "e", "v", "a", "l">> >>,
    answer |-> <<"Ukraine has a rich history dating back to ancient times. It was part of Kyivan Rus' in the medieval period, then came under various foreign rulers including the Polish-Lithuanian Commonwealth, Russian Empire, and Soviet Union. Ukraine has a strong cultural heritage with Cossack traditions.">> ]
>>

\* find_best_match of UkrainianQA: the inner loop
UkrainianQA_score(data, question_lower) ==
    Cardinality({ i \in 1..Len(data.keywords) :
                    Contains(data.keywords[i], question_lower) })

\* The outer loop with `score >= best_score`: the last of the best topics.
RECURSIVE UkrainianQA_best_last_tie(_, _, _)
UkrainianQA_best_last_tie(kb, question_lower, n) ==
    IF n = 0 THEN <<0, 0>>
    ELSE LET prev  == UkrainianQA_best_last_tie(kb, question_lower, n - 1)
             score == UkrainianQA_score(kb[n], question_lower)
         IN  IF score >= prev[2] THEN <<n, score>> ELSE prev

\* find_best_match of UkrainianQA: the outer loop over the first n entries,
\* <<best_match, best_score>>
RECURSIVE UkrainianQA_best(_, _, _)
UkrainianQA_best(kb, question_lower, n) ==
    IF n = 0 THEN <<0, 0>>
    ELSE LET prev  == UkrainianQA_best(kb, question_lower, n - 1)
             score == UkrainianQA_score(kb[n], question_lower)
         IN  IF score > prev[2] THEN <<n, score>> ELSE prev

\* UkrainianQA.find_best_match(question): the index of the topic, 0 for None
UkrainianQA_find_best_match(kb, question) ==
    LET best == UkrainianQA_best(kb, Lower(question), Len(kb))
    IN  IF best[2] > 0 THEN best[1] ELSE 0

\* UkrainianQA.get_answer(question)
UkrainianQA_get_answer(kb, question) ==
    IF Strip(question) = <<>>
    THEN <<"Please ask a question about Ukrainian topics.">>
    ELSE LET question_lower == Lower(question)
         IN  IF \E word \in { <<"h", "e", "l", "l", "o">>, <<"h", "i">>, <<"u043f", "u0440", "u0438", "u0432", "u0456", "u0442">>, <<"g", "r", "e", "e", "t", "i", "n", "g", "s">> } :
                    Contains(word, question_lower)
             THEN <<"{U+041F}{U+0440}{U+0438}{U+0432}{U+0456}{U+0442}! Hello! I'm your Ukrainian Q&A assistant. Ask me anything about Ukrainian culture, history, geography, or language! {U+1F1FA}{U+1F1E6}">>
             ELSE IF \E word \in { <<"t", "h", "a", "n", "k">>, <<"u0434", "u044f", "u043a", "u0443", "u044e">>, <<"t", "h", "a", "n", "k", "s">> } :
                    Contains(word, question_lower)
             THEN <<"{U+0411}{U+0443}{U+0434}{U+044C} {U+043B}{U+0430}{U+0441}{U+043A}{U+0430}! You're welcome! I'm happy to help you learn about Ukraine! {U+1F1FA}{U+1F1E6}">>
             ELSE LET best_match == UkrainianQA_find_best_match(kb, question)
                  IN  IF best_match # 0 THEN kb[best_match].answer
                      ELSE <<"I don't have specific information about that topic in my knowledge base. Try asking about Ukrainian history, culture, geography, language, food, or politics. For example: 'What is the capital of Ukraine?' or 'Tell me about Ukrainian borscht'">>


(***************************************************************************)
(* UkrainianQAModel (ukrainian_qa_model.py), the QA object of app.py.      *)
(* The embedding model, the FAISS index and the OpenAI client are opaque   *)
(* services: what they compute is an input of the model.  So is the        *)
(* environment of the constructor: whether OPENAI_API_KEY is set, and      *)
(* which step of _initialize_model raises, if any.                         *)
(***************************************************************************)
\* self.ukrainian_knowledge, a dict in definition order
ukrainian_knowledge ==
<<
  [ category |-> "history",
    facts |-> <<
        "Ukraine gained independence from the Soviet Union in 1991",
        "The capital of Ukraine is Kyiv (Kiev)",
        "Ukraine is the largest country entirely in Europe",
        "The Ukrainian language belongs to the East Slavic group",
        "Ukraine has a rich cultural heritage with Cossack traditions" >> ],
  [ category |-> "culture",
    facts |-> <<
        "Ukrainian embroidery (vyshyvanka) is a traditional craft",
        "Borscht is a famous Ukrainian beet soup",
        "The bandura is a traditional Ukrainian musical instrument",
        "Ukrainian Easter eggs (pysanky) are decorated with wax",
        "The sunflower is Ukraine's national flower" >> ],
  [ category |-> "geography",
    facts |-> <<
        "Ukraine borders Russia, Belarus, Poland, Slovakia, Hungary, Romania, and Moldova",
        "The Carpathian Mountains are in western Ukraine",
        "The Black Sea borders Ukraine to the south",
        "The Dnieper River is Ukraine's longest river",
        "Ukraine has fertile soil known as 'chernozem'" >> ],
  [ category |-> "politics",
    facts |-> <<
        "Ukraine is a democratic republic with a president and parliament",
        "The current president is Volodymyr Zelenskyy",
        "Ukraine has been working towards EU and NATO membership",
        "The country has faced challenges with Russian aggression since 2014",
        "Ukraine has made significant progress in democratic reforms" >> ]
>>

\* ukrainian_phrases of _build_knowledge_base
ukrainian_phrases ==
<<
    "{U+0414}{U+043E}{U+0431}{U+0440}{U+043E}{U+0433}{U+043E} {U+0440}{U+0430}{U+043D}{U+043A}{U+0443} - Good morning",
    "{U+0414}{U+044F}{U+043A}{U+0443}{U+044E} - Thank you",
    "{U+0411}{U+0443}{U+0434}{U+044C} {U+043B}{U+0430}{U+0441}{U+043A}{U+0430} - Please/You're welcome",
    "{U+041F}{U+0440}{U+0438}{U+0432}{U+0456}{U+0442} - Hello",
    "{U+0414}{U+043E} {U+043F}{U+043E}{U+0431}{U+0430}{U+0447}{U+0435}{U+043D}{U+043D}{U+044F} - Goodbye",
    "{U+0421}{U+043B}{U+0430}{U+0432}{U+0430} {U+0423}{U+043A}{U+0440}{U+0430}{U+0457}{U+043D}{U+0456} - Glory to Ukraine",
    "{U+0413}{U+0435}{U+0440}{U+043E}{U+044F}{U+043C} {U+0441}{U+043B}{U+0430}{U+0432}{U+0430} - Glory to the Heroes"
>>

\* The entries one category contributes.
CategoryEntries(c) ==
    [i \in 1..Len(c.facts) |->
        [text |-> c.facts[i], category |-> c.category,
         source |-> "ukrainian_knowledge_base"]]

RECURSIVE FactEntries(_, _)
FactEntries(uk, n) ==
    IF n = 0 THEN <<>>
    ELSE FactEntries(uk, n - 1) \o CategoryEntries(uk[n])

\* _build_knowledge_base(): the flat list self.knowledge_base
build_knowledge_base ==
    FactEntries(ukrainian_knowledge, Len(ukrainian_knowledge)) \o
    [i \in 1..Len(ukrainian_phrases) |->
        [text |-> ukrainian_phrases[i], category |-> "language",
         source |-> "ukrainian_phrases"]]

\* _build_faiss_index(): one vector per entry, in the order of the list; the
\* vector of entry i is written i (the embedding itself is opaque).  None is
\* the empty index.
build_faiss_index(kb, embedding_model) ==
    IF kb = <<>> \/ ~embedding_model THEN <<>>
    ELSE [i \in 1..Len(kb) |-> i]

\* The steps of _initialize_model that may raise.
InitSteps == <<"openai", "embedding", "knowledge_base", "faiss_index">>

InitFailures == {"none"} \cup {InitSteps[i] : i \in 1..Len(InitSteps)}

\* Whether step s ran to its end when the step `fail` raised.
StepDone(s, fail) ==
    \/ fail = "none"
    \/ \E i, j \in 1..Len(InitSteps) :
          /\ InitSteps[i] = s
          /\ InitSteps[j] = fail
          /\ i < j

\* A constructor that sets model_ready only when it made an OpenAI client.
initialize_model_needs_key(key_set, fail) ==
    LET embedding == StepDone("embedding", fail)
        kb == IF StepDone("knowledge_base", fail)
              THEN build_knowledge_base ELSE <<>>
    IN  [ model_ready     |-> (fail = "none") /\ key_set,
          openai_client   |-> key_set /\ StepDone("openai", fail),
          embedding_model |-> embedding,
          knowledge_base  |-> kb,
          faiss_index     |-> IF StepDone("faiss_index", fail)
                              THEN build_faiss_index(kb, embedding)
                              ELSE <<>> ]

\* UkrainianQAModel(): __init__ followed by _initialize_model, with
\* OPENAI_API_KEY set or not and `fail` the step that raises.
initialize_model(key_set, fail) ==
    LET embedding == StepDone("embedding", fail)
        kb == IF StepDone("knowledge_base", fail)
              THEN build_knowledge_base ELSE <<>>
    IN  [ model_ready     |-> (fail = "none"),
          openai_client   |-> key_set /\ StepDone("openai", fail),
          embedding_model |-> embedding,
          knowledge_base  |-> kb,
          faiss_index     |-> IF StepDone("faiss_index", fail)
                              THEN build_faiss_index(kb, embedding)
                              ELSE <<>> ]

\* The QA object of a program that has none of this class.
NoModel ==
    [ model_ready |-> FALSE, openai_client |-> FALSE,
      embedding_model |-> FALSE, knowledge_base |-> <<>>,
      faiss_index |-> <<>> ]

NotReadyReply == <<"I'm sorry, but the model is not ready yet. Please try again in a moment.">>

NoClientReply == <<"I'm sorry, but I don't have access to advanced AI capabilities at the moment.">>

ApologyReply == <<"I'm sorry, but I encountered an error while processing your question.">>

NoContextReply == <<"I don't have specific information about that topic in my Ukrainian knowledge base. Could you ask about Ukrainian history, culture, geography, or language?">>

\* What the completions API does with one call: it returns a completion
\* (its stripped content is the piece "<completion>") or it raises.
ApiOutcomes == {"completion", "raises"}

CompletionText == <<"<completion>">>

\* The vectors the index search ranks first, best first: the search is
\* opaque, so any sequence of distinct vectors of the index may come back;
\* the model tries the windows of top_k consecutive vectors that start at
\* every SearchStride-th vector.
top_k == 3

SearchStride == 6

SearchResults(m) ==
    { [j \in 1..top_k |-> i + j - 1] :
        i \in { k \in 1..(Len(m.faiss_index) - top_k + 1) :
                  k % SearchStride = 1 } }

\* A _find_relevant_context that drops the entries below a similarity
\* threshold: any prefix of the ranked texts may come back.
find_relevant_context_with_threshold(m) ==
    IF m.faiss_index = <<>> \/ ~m.embedding_model THEN { <<>> }
    ELSE { [j \in 1..n |-> m.knowledge_base[r[j]].text] :
             r \in SearchResults(m), n \in 0..top_k }

\* What _find_relevant_context may return: [] without an index or an
\* embedding model, else the texts of the entries the search names.
find_relevant_context(m) ==
    IF m.faiss_index = <<>> \/ ~m.embedding_model THEN { <<>> }
    ELSE { [j \in 1..Len(r) |-> m.knowledge_base[r[j]].text] :
             r \in SearchResults(m) }

\* " ".join(context)
RECURSIVE JoinSpace(_)
JoinSpace(context) ==
    IF Len(context) <= 1 THEN context
    ELSE <<Head(context), " ">> \o JoinSpace(Tail(context))

\* A _get_local_answer that tests 'geography' before 'culture'.
get_local_answer_geography_first(question, context) ==
    IF context = <<>> THEN NoContextReply
    ELSE LET q == Lower(question)
             prefix ==
               IF \/ Contains(<<"l", "a", "n", "g", "u", "a", "g", "e">>, q)
                  \/ Contains(<<"u", "k", "r", "a", "i", "n", "i", "a", "n">>, q)
               THEN "Based on my knowledge: "
               ELSE IF Contains(<<"h", "i", "s", "t", "o", "r", "y">>, q)
               THEN "From Ukrainian history: "
               ELSE IF Contains(<<"g", "e", "o", "g", "r", "a", "p", "h", "y">>, q)
               THEN "Regarding Ukrainian geography: "
               ELSE IF Contains(<<"c", "u", "l", "t", "u", "r", "e">>, q)
               THEN "In Ukrainian culture: "
               ELSE "Here's what I know about Ukraine: "
         IN  <<prefix>> \o JoinSpace(context)

\* _get_local_answer(question, context)
get_local_answer(question, context) ==
    IF context = <<>> THEN NoContextReply
    ELSE LET q == Lower(question)
             prefix ==
               IF \/ Contains(<<"l", "a", "n", "g", "u", "a", "g", "e">>, q)
                  \/ Contains(<<"u", "k", "r", "a", "i", "n", "i", "a", "n">>, q)
               THEN "Based on my knowledge: "
               ELSE IF Contains(<<"h", "i", "s", "t", "o", "r", "y">>, q)
               THEN "From Ukrainian history: "
               ELSE IF Contains(<<"c", "u", "l", "t", "u", "r", "e">>, q)
               THEN "In Ukrainian culture: "
               ELSE IF Contains(<<"g", "e", "o", "g", "r", "a", "p", "h", "y">>, q)
               THEN "Regarding Ukrainian geography: "
               ELSE "Here's what I know about Ukraine: "
         IN  <<prefix>> \o JoinSpace(context)

\* A _get_openai_answer that calls the API again until it completes.
get_openai_answer_retrying(m, question, context, api) ==
    IF ~m.openai_client THEN NoClientReply
    ELSE CompletionText

\* _get_openai_answer(question, context), the API call ending as `api`
get_openai_answer(m, question, context, api) ==
    IF ~m.openai_client THEN NoClientReply
    ELSE IF api = "completion" THEN CompletionText
    ELSE ApologyReply

\* A get_answer without the test of model_ready.
ml_get_answer_unguarded(m, question, context, api) ==
    IF m.openai_client
    THEN get_openai_answer(m, question, context, api)
    ELSE get_local_answer(question, context)

\* UkrainianQAModel.get_answer(question), with the context the search
\* returned and the API call ending as `api`
ml_get_answer(m, question, context, api) ==
    IF ~m.model_ready THEN NotReadyReply
    ELSE IF m.openai_client
         THEN get_openai_answer(m, question, context, api)
         ELSE get_local_answer(question, context)

\* A get_answer that falls back to the local answer when the API call
\* raises: what it runs.
ml_calls_falls_back(m, api) ==
    IF ~m.model_ready THEN <<"get_answer">>
    ELSE <<"get_answer", "_find_relevant_context">> \o
         (IF m.openai_client
          THEN <<"_get_openai_answer", "chat.completions.create">> \o
               (IF api = "raises" THEN <<"except", "_get_local_answer">>
                ELSE <<>>)
          ELSE <<"_get_local_answer">>)

\* The functions one call of UkrainianQAModel.get_answer runs, in order;
\* "except" is the except branch of _get_openai_answer.
ml_calls(m, api) ==
    IF ~m.model_ready THEN <<"get_answer">>
    ELSE <<"get_answer", "_find_relevant_context">> \o
         (IF m.openai_client
          THEN <<"_get_openai_answer", "chat.completions.create">> \o
               (IF api = "raises" THEN <<"except">> ELSE <<>>)
          ELSE <<"_get_local_answer">>)

(***************************************************************************)
(* The questions a client sends.                                           *)
(***************************************************************************)
Range(s) == { s[i] : i \in 1..Len(s) }

AllKeywords(kb) == UNION { Range(kb[i].keywords) : i \in 1..Len(kb) }

\* Every keyword, greeting word and thanks word of the code, and some text
\* with upper case, white space and words the matcher does not list.
FirstFragments ==
    AllKeywords(KnowledgeBase) \cup Range(GreetingWords) \cup Range(ThanksWords)
    \cup
    { <<" ">>,
      <<"\t">>,
      <<"x", "y", "z">>,
      <<"H", "I", "S", "T", "O", "R", "Y">>,
      <<"K", "y", "i", "v">>,
      <<"t", "h", "i", "s">>,
      <<"w", "h", "a", "t", " ", "i", "s", " ", "t", "h", "e", " ">>,
      <<"u041f", "u0440", "u0438", "u0432", "u0456", "u0442">>,
      <<"u0414", "u042f", "u041a", "u0423", "u042e">> }

MoreFragments ==
    { <<" ">>,
      <<"x", "y", "z">>,
      <<"h", "i">>,
      <<"t", "h", "a", "n", "k">>,
      <<"f", "o", "o", "d">>,
      <<"c", "u", "l", "t", "u", "r", "e">>,
      <<"K", "Y", "I", "V">> }

(***************************************************************************)
(* The HTTP handlers.  A request is                                        *)
(*   [method, path, body, question, conn]                                  *)
(* body says what the request body is, question is the value of its        *)
(* "question" key when that is a string, conn is what becomes of the       *)
(* connection while the response is written.  A response is                *)
(*   [statuses, bodies, escaped, calls]                                    *)
(* the status lines sent, the JSON bodies written, whether an exception    *)
(* left the handler, and the functions of the QA object the handler ran.   *)
(***************************************************************************)
\* The request bodies of POST /api/ask:
\*   string         {"question": "<question>"}
\*   no_key         {}
\*   null_question  {"question": null}
\*   int_question   {"question": 5}
\*   list           []
\*   invalid_json   text that is not JSON
\*   no_length      a request without a Content-Length header
Bodies == {"string", "no_key", "null_question", "int_question", "list",
           "invalid_json", "no_length"}

\* str(e) of the exception that reading the question out of the body
\* raises, "" when it raises none: int(self.headers['Content-Length']),
\* json.loads / request.get_json(), data.get('question', '').strip().
ParseError(body) ==
    CASE body = "no_length"     -> "int() argument must be a string, a bytes-like object or a real number, not 'NoneType'"
      [] body = "invalid_json"  -> "Expecting value: line 1 column 1 (char 0)"
      [] body = "list"          -> "'list' object has no attribute 'get'"
      [] body = "null_question" -> "'NoneType' object has no attribute 'strip'"
      [] body = "int_question"  -> "'int' object has no attribute 'strip'"
      [] OTHER                  -> ""

\* data.get('question', '') without the strip()
QuestionOf_unstripped(req) == IF req.body = "string" THEN req.question ELSE <<>>

\* data.get('question', '').strip()
QuestionOf(req) == IF req.body = "string" THEN Strip(req.question) ELSE <<>>

RequiredError == <<"Question is required">>

FlaskError == <<"An error occurred while processing your question">>

Response(status, body, calls) ==
    [statuses |-> <<status>>, bodies |-> <<body>>, escaped |-> FALSE,
     calls |-> calls]

\* An ask_question that answers 500 when get_answer returns one of the
\* model's failure texts.
ask_question_reporting_failures(req, answer, calls) ==
    IF ParseError(req.body) # "" \/ answer \in {ApologyReply, NotReadyReply}
    THEN Response(500, [error |-> FlaskError, success |-> FALSE], calls)
    ELSE IF QuestionOf(req) = <<>>
    THEN Response(400, [error |-> RequiredError], <<>>)
    ELSE Response(200, [question |-> QuestionOf(req), answer |-> answer,
                        success |-> TRUE], calls)

\* ask_question() of app.py and of app_lightweight.py, `answer` being what
\* the QA object's get_answer returns for the stripped question and `calls`
\* the functions that call runs
ask_question(req, answer, calls) ==
    IF ParseError(req.body) # ""
    THEN Response(500, [error |-> FlaskError, success |-> FALSE], <<>>)
    ELSE IF QuestionOf(req) = <<>>
    THEN Response(400, [error |-> RequiredError], <<>>)
    ELSE Response(200, [question |-> QuestionOf(req), answer |-> answer,
                        success |-> TRUE], calls)

\* BrokenPipeError, raised by a write to a connection the client closed
BrokenPipe == "[Errno 32] Broken pipe"

\* The connection of a request: it stays open, or the client closes it
\* before the headers are flushed, or after that and before the body.
Conns == {"open", "closed_before_headers", "closed_after_headers"}

\* The except branch of do_POST, e the exception caught: it sends 500 and
\* writes its own body, and a write to a closed connection raises again,
\* outside any try.
do_POST_except(statuses, e, conn, calls) ==
    [ calls    |-> calls,
      statuses |-> Append(statuses, 500),
      bodies   |-> IF conn = "open"
                   THEN << [error |-> <<"An error occurred: ", e>>,
                            success |-> FALSE] >>
                   ELSE <<>>,
      escaped  |-> conn # "open" ]

\* do_POST() of simple_start.py
do_POST(req, answer) ==
    IF req.path # "/api/ask"
    THEN [statuses |-> <<404>>, bodies |-> <<>>, escaped |-> FALSE,
          calls |-> <<>>]
    ELSE IF ParseError(req.body) # ""
    THEN do_POST_except(<<>>, ParseError(req.body), req.conn, <<>>)
    ELSE LET empty == QuestionOf(req) = <<>>
             response ==
               IF empty
               THEN [error |-> RequiredError, success |-> FALSE]
               ELSE [question |-> QuestionOf(req), answer |-> answer,
                     success |-> TRUE]
             calls == IF empty THEN <<>> ELSE <<"get_answer">>
         IN  IF req.conn = "open"
             THEN [statuses |-> <<200>>, bodies |-> <<response>>,
                   escaped |-> FALSE, calls |-> calls]
             ELSE do_POST_except(<<200>>, BrokenPipe, req.conn, calls)

\* health_check() of app.py
health_check_app(m) ==
    Response(200, [status |-> "healthy", model_loaded |-> m.model_ready],
             <<"is_ready">>)

\* health_check() of app_lightweight.py
health_check_lightweight ==
    Response(200, [status |-> "healthy", model_loaded |-> TRUE,
                   version |-> "lightweight"], <<>>)

\* get_topics() of app_lightweight.py
get_topics(kb) ==
    Response(200, [topics |-> Keys(kb), count |-> Len(Keys(kb))], <<>>)

\* index(): the page templates/index.html
index == Response(200, [html |-> "index.html"], <<>>)

\* What Flask answers to a path no route is registered for.
NotFound ==
    [statuses |-> <<404>>, bodies |-> <<>>, escaped |-> FALSE, calls |-> <<>>]

\* do_GET() of simple_start.py
do_GET(path, kb) ==
    IF path \in {"/", "/?", "/index.html"}
    THEN Response(200, [html |-> "get_html_page"], <<>>)
    ELSE IF path = "/api/health"
    THEN Response(200, [status |-> "healthy", model_loaded |-> TRUE,
                        version |-> "simple"], <<>>)
    ELSE IF path = "/api/topics"
    THEN Response(200, [topics |-> Keys(kb), count |-> Len(Keys(kb))], <<>>)
    ELSE [statuses |-> <<302>>, bodies |-> <<>>, escaped |-> FALSE,
          calls |-> <<>>]

(***************************************************************************)
(* The state machine: one process of one of the three programs and the     *)
(* client that talks to it, one request at a time.                         *)
(***************************************************************************)
VARIABLES
    variant,    \* the program: "app", "lightweight" or "simple"
    env,        \* the process's environment while the QA object was built
    qa_system,  \* the keyword variants' QA object: its knowledge_base
    qa_model,   \* app.py's UkrainianQAModel object
    pc,         \* "idle", "pending" (a request is in), "done" (answered)
    draft,      \* the question the client is writing
    nfrags,     \* the number of fragments of draft
    request,    \* the request being handled
    response,   \* the response to it
    threads     \* the server's request threads, when requests overlap

vars == <<variant, env, qa_system, qa_model, pc, draft, nfrags, request,
          response, threads>>

Variants == {"app", "lightweight", "simple"}

KeywordVariants == {"lightweight", "simple"}

NoRequest ==
    [method |-> "", path |-> "", body |-> "", question |-> <<>>, conn |-> ""]

NoResponse ==
    [statuses |-> <<>>, bodies |-> <<>>, escaped |-> FALSE, calls |-> <<>>]

GetPaths == {"/", "/?", "/index.html", "/api/health", "/api/topics", "/other"}

\* The request threads of the server.
MaxThreads == 2

Threads == 1..MaxThreads

\* A thread that handles no request: the locals of a handler are its
\* question and its answer.
IdleThread ==
    [pc |-> "idle", request |-> NoRequest, question |-> <<>>,
     answer |-> <<>>, response |-> NoResponse]

\* The knowledge_base each program's qa_system is constructed with (app.py
\* has no qa_system).
InitialKnowledgeBase(v) ==
    IF v = "lightweight" THEN KnowledgeBase
    ELSE IF v = "simple" THEN UkrainianQA_knowledge_base
    ELSE <<>>

\* The environment of a program that builds no UkrainianQAModel.
NoEnv == [OPENAI_API_KEY |-> FALSE, raises |-> "none"]

\* The state when the module has been imported: qa_system or qa_model is
\* constructed, no request has come in.  The OpenAI client is constructed,
\* and so can raise, only when the key is set.
Init ==
    /\ variant \in Variants
    /\ qa_system = [knowledge_base |-> InitialKnowledgeBase(variant)]
    /\ env \in [OPENAI_API_KEY : BOOLEAN, raises : InitFailures]
    /\ env.raises = "openai" => env.OPENAI_API_KEY
    /\ variant # "app" => env = NoEnv
    /\ qa_model = IF variant = "app"
                  THEN initialize_model(env.OPENAI_API_KEY, env.raises)
                  ELSE NoModel
    /\ pc = "idle"
    /\ draft = <<>>
    /\ nfrags = 0
    /\ request = NoRequest
    /\ response = NoResponse
    /\ threads = [t \in Threads |-> IdleThread]

\* The client writes one more fragment of its question.
Compose ==
    /\ pc = "idle"
    /\ nfrags < MaxFrags
    /\ \E f \in (IF nfrags = 0 THEN FirstFragments ELSE MoreFragments) :
          draft' = draft \o f
    /\ nfrags' = nfrags + 1
    /\ UNCHANGED <<variant, env, threads, qa_system, qa_model,
                    pc, request, response>>

\* The client posts to /api/ask: its question, or one of the other bodies.
SendAsk ==
    /\ pc = "idle"
    /\ \E body \in Bodies, conn \in Conns :
          /\ body # "string" => nfrags = 0
          /\ conn # "open" => variant = "simple"
          /\ request' = [method |-> "POST", path |-> "/api/ask", body |-> body,
                         question |-> IF body = "string" THEN draft ELSE <<>>,
                         conn |-> conn]
    /\ pc' = "pending"
    /\ UNCHANGED <<variant, env, threads, qa_system, qa_model,
                    draft, nfrags, response>>

\* The client posts to another path.
SendPostElsewhere ==
    /\ pc = "idle"
    /\ nfrags = 0
    /\ request' = [method |-> "POST", path |-> "/other", body |-> "no_key",
                   question |-> <<>>, conn |-> "open"]
    /\ pc' = "pending"
    /\ UNCHANGED <<variant, env, threads, qa_system, qa_model,
                    draft, nfrags, response>>

\* The client sends a GET.
SendGet ==
    /\ pc = "idle"
    /\ nfrags = 0
    /\ \E path \in GetPaths :
          request' = [method |-> "GET", path |-> path, body |-> "",
                      question |-> <<>>, conn |-> "open"]
    /\ pc' = "pending"
    /\ UNCHANGED <<variant, env, threads, qa_system, qa_model,
                    draft, nfrags, response>>

Handles(v, method, paths) ==
    /\ pc = "pending"
    /\ variant \in v
    /\ request.method = method
    /\ request.path \in paths

Answered(r) ==
    /\ response' = r
    /\ pc' = "done"
    /\ UNCHANGED <<variant, env, threads, qa_system, qa_model,
                    draft, nfrags, request>>

\* A POST /api/ask whose get_answer runs _initialize_model again when the
\* model is not ready.
AppAsk_reinitializing ==
    /\ Handles({"app"}, "POST", {"/api/ask"})
    /\ \E context \in find_relevant_context(qa_model), api \in ApiOutcomes :
          response' = ask_question(request,
                        ml_get_answer(qa_model, QuestionOf(request), context, api),
                        ml_calls(qa_model, api))
    /\ qa_model' = IF qa_model.model_ready THEN qa_model
                   ELSE initialize_model(env.OPENAI_API_KEY, "none")
    /\ pc' = "done"
    /\ UNCHANGED <<variant, env, threads, qa_system, draft, nfrags, request>>

\* app.py: POST /api/ask
AppAsk ==
    /\ Handles({"app"}, "POST", {"/api/ask"})
    /\ \E context \in find_relevant_context(qa_model), api \in ApiOutcomes :
          Answered(ask_question(request,
                      ml_get_answer(qa_model, QuestionOf(request), context, api),
                      ml_calls(qa_model, api)))

\* UkrainianQAModel.get_knowledge_stats()
get_knowledge_stats(m) ==
    IF m.knowledge_base = <<>>
    THEN [total_entries |-> 0, categories |-> <<>>]
    ELSE LET kb == m.knowledge_base
         IN  [total_entries |-> Len(kb),
              categories |->
                  [cat \in { kb[i].category : i \in 1..Len(kb) } |->
                      Cardinality({ i \in 1..Len(kb) : kb[i].category = cat })]]

\* A get_knowledge_stats that builds the knowledge base again before it
\* counts.
AppKnowledgeStats_rebuilding ==
    /\ pc = "idle"
    /\ nfrags = 0
    /\ variant = "app"
    /\ request' = [method |-> "CALL", path |-> "get_knowledge_stats",
                   body |-> "", question |-> <<>>, conn |-> ""]
    /\ qa_model' = [qa_model EXCEPT
                       !.knowledge_base = @ \o build_knowledge_base]
    /\ response' = [statuses |-> <<>>,
                    bodies |-> <<get_knowledge_stats(qa_model')>>,
                    escaped |-> FALSE, calls |-> <<"get_knowledge_stats">>]
    /\ pc' = "done"
    /\ UNCHANGED <<variant, env, threads, qa_system, draft, nfrags>>

\* qa_model.get_knowledge_stats() is called (no route of app.py does; the
\* method is public): it reads knowledge_base and assigns no attribute.
AppKnowledgeStats ==
    /\ pc = "idle"
    /\ nfrags = 0
    /\ variant = "app"
    /\ request' = [method |-> "CALL", path |-> "get_knowledge_stats",
                   body |-> "", question |-> <<>>, conn |-> ""]
    /\ qa_model' = qa_model
    /\ response' = [statuses |-> <<>>,
                    bodies |-> <<get_knowledge_stats(qa_model)>>,
                    escaped |-> FALSE, calls |-> <<"get_knowledge_stats">>]
    /\ pc' = "done"
    /\ UNCHANGED <<variant, env, threads, qa_system, draft, nfrags>>

\* app.py: GET /api/health
AppHealth ==
    /\ Handles({"app"}, "GET", {"/api/health"})
    /\ Answered(health_check_app(qa_model))

\* app_lightweight.py: POST /api/ask
LightweightAsk ==
    /\ Handles({"lightweight"}, "POST", {"/api/ask"})
    /\ Answered(ask_question(request,
                   get_answer(qa_system.knowledge_base, QuestionOf(request)),
                   <<"get_answer">>))

\* app_lightweight.py: GET /api/health
LightweightHealth ==
    /\ Handles({"lightweight"}, "GET", {"/api/health"})
    /\ Answered(health_check_lightweight)

\* A get_topics that takes the keys out of the dict it lists.
LightweightTopics_popping ==
    /\ Handles({"lightweight"}, "GET", {"/api/topics"})
    /\ response' = get_topics(qa_system.knowledge_base)
    /\ pc' = "done"
    /\ qa_system' = [knowledge_base |-> Tail(qa_system.knowledge_base)]
    /\ UNCHANGED <<variant, env, threads, qa_model, draft, nfrags, request>>

\* app_lightweight.py: GET /api/topics
LightweightTopics ==
    /\ Handles({"lightweight"}, "GET", {"/api/topics"})
    /\ Answered(get_topics(qa_system.knowledge_base))

\* app.py and app_lightweight.py: GET / (Flask takes "/?" for "/")
FlaskIndex ==
    /\ Handles({"app", "lightweight"}, "GET", {"/", "/?"})
    /\ Answered(index)

\* app.py and app_lightweight.py: a request no route matches
FlaskNotFound ==
    /\ \/ Handles({"app", "lightweight"}, "GET", {"/index.html", "/other"})
       \/ Handles({"app"}, "GET", {"/api/topics"})
       \/ Handles({"app", "lightweight"}, "POST", {"/other"})
    /\ Answered(NotFound)

\* simple_start.py: any GET
SimpleGet ==
    /\ Handles({"simple"}, "GET", GetPaths)
    /\ Answered(do_GET(request.path, qa_system.knowledge_base))

\* simple_start.py: any POST
SimplePost ==
    /\ Handles({"simple"}, "POST", {"/api/ask", "/other"})
    /\ Answered(do_POST(request,
                   UkrainianQA_get_answer(qa_system.knowledge_base,
                                          QuestionOf(request))))

\* The client has its response and starts over.
Deliver ==
    /\ pc = "done"
    /\ pc' = "idle"
    /\ draft' = <<>>
    /\ nfrags' = 0
    /\ request' = NoRequest
    /\ response' = NoResponse
    /\ UNCHANGED <<variant, env, threads, qa_system, qa_model>>

Next ==
    \/ Compose
    \/ SendAsk
    \/ SendPostElsewhere
    \/ SendGet
    \/ AppAsk
    \/ AppHealth
    \/ AppKnowledgeStats
    \/ LightweightAsk
    \/ LightweightHealth
    \/ LightweightTopics
    \/ FlaskIndex
    \/ FlaskNotFound
    \/ SimpleGet
    \/ SimplePost
    \/ Deliver

Spec == Init /\ [][Next]_vars

(***************************************************************************)
(* Overlapping requests.  Flask's development server (app.run) gives each  *)
(* request its own thread, which runs the handler line by line; the        *)
(* TCPServer of simple_start handles one request to its end before it      *)
(* accepts the next.  The keyword variants, a few requests.                *)
(***************************************************************************)
ConcQuestions ==
    { <<"h", "i", "s", "t", "o", "r", "y">>,
      <<" ", "K", "y", "i", "v", " ">>,
      <<"x", "y", "z">>,
      <<" ", "\t">> }

ConcRequests ==
    { [method |-> "POST", path |-> "/api/ask", body |-> "string",
       question |-> q, conn |-> "open"] : q \in ConcQuestions }
    \cup
    { [method |-> "POST", path |-> "/api/ask", body |-> b,
       question |-> <<>>, conn |-> "open"] : b \in {"no_key", "invalid_json"} }
    \cup
    { [method |-> "GET", path |-> p, body |-> "",
       question |-> <<>>, conn |-> "open"] :
         p \in {"/", "/api/health", "/api/topics"} }

ThreadStep(t, th) ==
    /\ threads' = [threads EXCEPT ![t] = th]
    /\ UNCHANGED <<variant, env, qa_system, qa_model, pc, draft, nfrags,
                   request, response>>

IsAsk(req) == req.method = "POST" /\ req.path = "/api/ask"

\* A thread takes a request (simple_start: when no other request is in).
ThreadAccept(t) ==
    /\ threads[t].pc = "idle"
    /\ variant = "simple" => \A u \in Threads : threads[u].pc = "idle"
    /\ \E req \in ConcRequests :
          ThreadStep(t, [IdleThread EXCEPT !.pc = "handle", !.request = req])

\* GET: the whole handler (each one reads at most the knowledge base).
ThreadGet(t) ==
    /\ threads[t].pc = "handle"
    /\ threads[t].request.method = "GET"
    /\ LET path == threads[t].request.path
           r == IF variant = "simple"
                THEN do_GET(path, qa_system.knowledge_base)
                ELSE IF path = "/api/health" THEN health_check_lightweight
                ELSE IF path = "/api/topics"
                THEN get_topics(qa_system.knowledge_base)
                ELSE index
       IN  ThreadStep(t, [threads[t] EXCEPT !.pc = "done", !.response = r])

\* POST /api/ask, up to the test of the question: the body is read and the
\* question stripped into the handler's local; a raising body and an empty
\* question are answered at once.
ThreadParse(t) ==
    /\ threads[t].pc = "handle"
    /\ IsAsk(threads[t].request)
    /\ LET req == threads[t].request
       IN  IF ParseError(req.body) # "" \/ QuestionOf(req) = <<>>
           THEN ThreadStep(t, [threads[t] EXCEPT
                   !.pc = "done",
                   !.response = IF variant = "simple"
                                THEN do_POST(req, <<>>)
                                ELSE ask_question(req, <<>>, <<>>)])
           ELSE ThreadStep(t, [threads[t] EXCEPT
                   !.pc = "answer", !.question = QuestionOf(req)])

\* A handler that keeps the stripped question in a module-level variable:
\* get_answer gets the question of whichever request wrote it last.
ThreadAnswer_shared_question(t) ==
    /\ threads[t].pc = "answer"
    /\ \E u \in Threads :
          /\ threads[u].pc \in {"answer", "respond"}
          /\ ThreadStep(t, [threads[t] EXCEPT
                !.pc = "respond",
                !.answer = get_answer(qa_system.knowledge_base,
                                      threads[u].question)])

\* answer = qa_system.get_answer(question)
ThreadAnswer(t) ==
    /\ threads[t].pc = "answer"
    /\ ThreadStep(t, [threads[t] EXCEPT
          !.pc = "respond",
          !.answer = IF variant = "simple"
                     THEN UkrainianQA_get_answer(qa_system.knowledge_base,
                                                 threads[t].question)
                     ELSE get_answer(qa_system.knowledge_base,
                                     threads[t].question)])

\* The response is built from the handler's locals and sent.
ThreadRespond(t) ==
    /\ threads[t].pc = "respond"
    /\ LET body == [question |-> threads[t].question,
                    answer |-> threads[t].answer, success |-> TRUE]
       IN  ThreadStep(t, [threads[t] EXCEPT
              !.pc = "done",
              !.response = Response(200, body, <<"get_answer">>)])

\* The client has the response; the thread is free again.
ThreadFinish(t) ==
    /\ threads[t].pc = "done"
    /\ ThreadStep(t, IdleThread)

NextConc ==
    \E t \in Threads :
        \/ ThreadAccept(t)
        \/ ThreadGet(t)
        \/ ThreadParse(t)
        \/ ThreadAnswer(t)
        \/ ThreadRespond(t)
        \/ ThreadFinish(t)

InitConc == Init /\ variant \in KeywordVariants

SpecConc == InitConc /\ [][NextConc]_vars

(***************************************************************************)
(* Properties.                                                             *)
(***************************************************************************)
\* POST /api/ask has been answered.
AskDone == pc = "done" /\ request.method = "POST" /\ request.path = "/api/ask"

\* The client kept the connection open, so the response reached it.
Delivered == request.conn = "open"

\* The response is a 200 with a question and an answer.
Answered200 ==
    /\ response.statuses = <<200>>
    /\ Len(response.bodies) = 1
    /\ "answer" \in DOMAIN response.bodies[1]

AllWhitespace(s) == \A i \in 1..Len(s) : s[i] \in {" ", "\t"}

\* The request's JSON object has an empty question: no "question" key, or
\* a string that is empty or white space only.
EmptyQuestion(req) ==
    \/ req.body = "no_key"
    \/ req.body = "string" /\ AllWhitespace(req.question)

\* The request's JSON object has a question that is a string with some
\* character other than white space.
NonEmptyQuestion(req) == req.body = "string" /\ ~AllWhitespace(req.question)

\* s is q with white space before and after it, and q neither starts nor
\* ends with white space.
IsStripOf(q, s) ==
    /\ q # <<>>
    /\ ~AllWhitespace(<<q[1]>>)
    /\ ~AllWhitespace(<<q[Len(q)]>>)
    /\ \E i \in 1..Len(s) :
          /\ i + Len(q) - 1 <= Len(s)
          /\ SubSeq(s, i, i + Len(q) - 1) = q
          /\ AllWhitespace(SubSeq(s, 1, i - 1))
          /\ AllWhitespace(SubSeq(s, i + Len(q), Len(s)))

\* The lower-cased question contains no greeting word, no thanks word and
\* no keyword of any topic.
Unrecognized(kb, q) ==
    /\ \A w \in Range(GreetingWords) \cup Range(ThanksWords) :
          ~Contains(w, Lower(q))
    /\ \A i \in 1..Len(kb) : \A k \in Range(kb[i].keywords) :
          ~Contains(k, Lower(q))

\* get_answer of the running program's qa_system (a keyword variant).
QaAnswer(q) ==
    IF variant = "simple"
    THEN UkrainianQA_get_answer(qa_system.knowledge_base, q)
    ELSE get_answer(qa_system.knowledge_base, q)

\* find_best_match of the running program's qa_system (a keyword variant).
QaBestMatch(q) ==
    IF variant = "simple"
    THEN UkrainianQA_find_best_match(qa_system.knowledge_base, q)
    ELSE find_best_match(qa_system.knowledge_base, q)

\* C1: in the keyword variants, for every topic T and every keyword k of T,
\* the answer to a question that contains k is T's prewritten answer.
C1_KeywordReturnsTopicAnswer ==
    (AskDone /\ variant \in KeywordVariants /\ Delivered /\ Answered200) =>
        \A i \in 1..Len(qa_system.knowledge_base) :
            \A k \in Range(qa_system.knowledge_base[i].keywords) :
                Contains(k, response.bodies[1].question) =>
                    response.bodies[1].answer = qa_system.knowledge_base[i].answer

\* C2: in the keyword variants, get_answer returns the default fallback
\* message for exactly the questions that are non-empty after stripping and
\* unrecognized: both for the question the client is writing and for the
\* question an answered request carried.
C2_DefaultIffUnrecognized ==
    variant \in KeywordVariants =>
        /\ (QaAnswer(draft) = DefaultReply)
              <=> (~AllWhitespace(draft)
                   /\ Unrecognized(qa_system.knowledge_base, draft))
        /\ (AskDone /\ Delivered /\ NonEmptyQuestion(request)) =>
              /\ Answered200
              /\ (response.bodies[1].answer = DefaultReply)
                    <=> Unrecognized(qa_system.knowledge_base, request.question)

C2_Witness ==
    /\ AskDone /\ variant \in KeywordVariants /\ Delivered
    /\ NonEmptyQuestion(request)
    /\ Unrecognized(qa_system.knowledge_base, request.question)
    /\ Answered200
    /\ response.bodies[1].answer = DefaultReply

\* C3: in all three variants, POST /api/ask with an empty question (no
\* 'question' key, the empty string, or white space only) never calls
\* get_answer, and the response the client gets carries the error
\* 'Question is required'.
C3_EmptyQuestionRequired ==
    (AskDone /\ EmptyQuestion(request)) =>
        /\ response.calls = <<>>
        /\ Delivered =>
              /\ Len(response.bodies) = 1
              /\ "error" \in DOMAIN response.bodies[1]
              /\ response.bodies[1].error = RequiredError

C3_Witness ==
    /\ AskDone /\ Delivered
    /\ request.body = "string" /\ request.question # <<>>
    /\ AllWhitespace(request.question)
    /\ response.bodies[1].error = RequiredError
    /\ response.calls = <<>>

\* C4: in all three variants, POST /api/ask with an empty question is
\* answered with HTTP status 400.
C4_EmptyQuestionIs400 ==
    (AskDone /\ EmptyQuestion(request) /\ Delivered) =>
        response.statuses = <<400>>

\* C5: in all three variants, every response body of POST /api/ask is an
\* object with the keys question, answer, success (success true) or an
\* object with the keys error, success (success false).
C5_TwoBodyShapes ==
    AskDone =>
        \A i \in 1..Len(response.bodies) :
            LET b == response.bodies[i]
            IN  \/ DOMAIN b = {"question", "answer", "success"} /\ b.success = TRUE
                \/ DOMAIN b = {"error", "success"} /\ b.success = FALSE

\* The request that stands for "some exception": a body that is not JSON.
ReferenceFailure ==
    [method |-> "POST", path |-> "/api/ask", body |-> "invalid_json",
     question |-> <<>>, conn |-> "open"]

\* The error text the variant sends for the reference failure.
ReferenceErrorText ==
    IF variant = "simple"
    THEN do_POST(ReferenceFailure, <<>>).bodies[1].error
    ELSE ask_question(ReferenceFailure, <<>>, <<>>).bodies[1].error

\* C6: in all three variants, a POST /api/ask whose handling raises is
\* answered with status 500 and an error message that is the same text for
\* every exception.
C6_GenericError500 ==
    (AskDone /\ Delivered /\ ParseError(request.body) # "") =>
        /\ response.statuses = <<500>>
        /\ Len(response.bodies) = 1
        /\ response.bodies[1].error = ReferenceErrorText

\* GET /api/health has been answered.
HealthDone == pc = "done" /\ request.method = "GET" /\ request.path = "/api/health"

ReportsReady ==
    /\ response.statuses = <<200>>
    /\ Len(response.bodies) = 1
    /\ response.bodies[1].status = "healthy"
    /\ response.bodies[1].model_loaded = TRUE

TopicKeys ==
    <<"capital", "borscht", "slava_ukraini", "independence", "geography",
      "culture", "language", "politics", "food", "history">>

\* C8: the knowledge base of the keyword variants is never mutated: in every
\* state, whatever requests were handled, it is the mapping of process
\* start, with the same 10 topics.
C8_KnowledgeBaseNeverMutated ==
    variant \in KeywordVariants =>
        /\ qa_system.knowledge_base = InitialKnowledgeBase(variant)
        /\ Keys(qa_system.knowledge_base) = TopicKeys
        /\ Len(qa_system.knowledge_base) = 10

C8_Witness ==
    /\ pc = "done" /\ variant = "lightweight"
    /\ request.method = "GET" /\ request.path = "/api/topics"
    /\ qa_system.knowledge_base = KnowledgeBase

\* C9: in the keyword variants, POST /api/ask with a question that is
\* non-empty after stripping is answered with status 200 and a body with
\* success true, a non-empty answer, and the stripped question, which is the
\* string get_answer was called with.
C9_NonEmptyQuestionAnswered ==
    (AskDone /\ variant \in KeywordVariants /\ Delivered
       /\ NonEmptyQuestion(request)) =>
        /\ Answered200
        /\ response.bodies[1].success = TRUE
        /\ IsStripOf(response.bodies[1].question, request.question)
        /\ response.calls = <<"get_answer">>
        /\ response.bodies[1].answer =
              QaAnswer(response.bodies[1].question)
        /\ response.bodies[1].answer # <<>>
        /\ \A i \in 1..Len(response.bodies[1].answer) :
              response.bodies[1].answer[i] # ""

C9_Witness ==
    /\ AskDone /\ variant = "simple" /\ Delivered
    /\ NonEmptyQuestion(request)
    /\ response.bodies[1].question # request.question
    /\ response.bodies[1].success = TRUE

\* GET /api/topics has been answered.
TopicsDone == pc = "done" /\ request.method = "GET" /\ request.path = "/api/topics"

\* C10: GET /api/topics is answered by app_lightweight and simple_start with
\* status 200, the topic keys in definition order and their number, 10;
\* app.py has no such route.
C10_TopicsEndpoint ==
    TopicsDone =>
        IF variant \in KeywordVariants
        THEN /\ response.statuses = <<200>>
             /\ Len(response.bodies) = 1
             /\ response.bodies[1].topics = TopicKeys
             /\ response.bodies[1].count = Len(response.bodies[1].topics)
             /\ response.bodies[1].count = 10
        ELSE /\ response.statuses = <<404>>
             /\ response.bodies = <<>>

C10_Witness ==
    /\ TopicsDone /\ variant = "simple"
    /\ response.bodies[1].topics = TopicKeys

\* C11: LightweightUkrainianQA (app_lightweight) and UkrainianQA
\* (simple_start) are the same matcher: for every question, each one's
\* get_answer on its own knowledge base returns the same string, and each
\* one's find_best_match the same topic or None; the answer either program
\* sends is the one the other's get_answer returns.
C11_SameMatcher ==
    /\ (pc = "idle" /\ variant = "lightweight") =>
          /\ get_answer(KnowledgeBase, draft)
                = UkrainianQA_get_answer(UkrainianQA_knowledge_base, draft)
          /\ LET l == find_best_match(KnowledgeBase, draft)
                 s == UkrainianQA_find_best_match(UkrainianQA_knowledge_base,
                                                  draft)
             IN  /\ (l = 0) <=> (s = 0)
                 /\ l # 0 => KnowledgeBase[l].topic
                                = UkrainianQA_knowledge_base[s].topic
    /\ (AskDone /\ variant \in KeywordVariants /\ Delivered /\ Answered200) =>
          response.bodies[1].answer
              = IF variant = "simple"
                THEN get_answer(KnowledgeBase, response.bodies[1].question)
                ELSE UkrainianQA_get_answer(UkrainianQA_knowledge_base,
                                            response.bodies[1].question)

\* A question with keywords of several topics, answered by simple_start
\* with the topic answer both matchers choose.
C11_Witness ==
    /\ AskDone /\ variant = "simple" /\ Delivered /\ Answered200
    /\ find_best_match(KnowledgeBase, request.question) # 0
    /\ Cardinality({ i \in 1..Len(KnowledgeBase) :
                       Score(KnowledgeBase[i], Lower(request.question)) > 0 }) > 1
    /\ response.bodies[1].answer
          = KnowledgeBase[find_best_match(KnowledgeBase, request.question)].answer

\* What app_lightweight's ask_question answers to a request.
LightweightResponse(req) ==
    ask_question(req, get_answer(KnowledgeBase, QuestionOf(req)),
                 <<"get_answer">>)

\* What simple_start's do_POST answers to a request.
SimpleResponse(req) ==
    do_POST(req, UkrainianQA_get_answer(UkrainianQA_knowledge_base,
                                        QuestionOf(req)))

\* Two responses with the same status line, and bodies with the same keys
\* and the same values (so the same error or answer text).
SameSurface(r1, r2) ==
    /\ r1.statuses = r2.statuses
    /\ Len(r1.bodies) = Len(r2.bodies)
    /\ \A i \in 1..Len(r1.bodies) :
          /\ DOMAIN r1.bodies[i] = DOMAIN r2.bodies[i]
          /\ r1.bodies[i] = r2.bodies[i]

\* C12: for every POST /api/ask request body, app_lightweight's
\* ask_question and simple_start's do_POST answer with the same status and a
\* JSON body with the same keys and the same error or answer text.
C12_SameHttpSurface ==
    (AskDone /\ variant \in KeywordVariants /\ Delivered) =>
        /\ SameSurface(response, LightweightResponse(request))
        /\ SameSurface(response, SimpleResponse(request))

\* The response a freshly started server of the variant gives to the request
\* when it handles nothing else.
AloneResponse(v, req) ==
    IF v = "simple"
    THEN IF req.method = "POST" THEN SimpleResponse(req)
         ELSE do_GET(req.path, UkrainianQA_knowledge_base)
    ELSE IF req.method = "POST" THEN LightweightResponse(req)
         ELSE IF req.path = "/api/health" THEN health_check_lightweight
         ELSE IF req.path = "/api/topics" THEN get_topics(KnowledgeBase)
         ELSE index

Count(name, calls) == Cardinality({ i \in 1..Len(calls) : calls[i] = name })

\* app.py has answered POST /api/ask having called get_answer on a ready
\* model.
AppAnsweredReady ==
    /\ AskDone /\ variant = "app" /\ qa_model.model_ready
    /\ NonEmptyQuestion(request)

C15_FallsBackToLocalAnswer ==
    (/\ AppAnsweredReady
     /\ \/ ~qa_model.openai_client
        \/ "except" \in Range(response.calls)) =>
        \E context \in find_relevant_context(qa_model) :
            response.bodies[1].answer
                = get_local_answer(Strip(request.question), context)

\* The entries of knowledge base kb that are tagged cat.
Tagged(kb, cat) == { i \in 1..Len(kb) : kb[i].category = cat }

\* C16: in the ML variant, the flat knowledge list and the similarity index
\* are those the constructor built, after any sequence of get_answer,
\* is_ready and get_knowledge_stats calls; after an initialization in which
\* no step raised, the list holds the 27 hardcoded entries (4 categories of
\* 5 facts and 7 phrases tagged 'language') and the index one vector per
\* entry.
C16_KnowledgeBuiltOnce ==
    variant = "app" =>
        /\ qa_model = initialize_model(env.OPENAI_API_KEY, env.raises)
        /\ env.raises = "none" =>
              LET kb == qa_model.knowledge_base
              IN  /\ Len(kb) = 27
                  /\ Len(qa_model.faiss_index) = Len(kb)
                  /\ Cardinality({ kb[i].category : i \in 1..Len(kb) }) = 5
                  /\ Cardinality(Tagged(kb, "language")) = 7
                  /\ \A i \in Tagged(kb, "language") :
                        kb[i].source = "ukrainian_phrases"
                  /\ \A i \in 1..Len(kb) :
                        kb[i].category # "language" =>
                            /\ Cardinality(Tagged(kb, kb[i].category)) = 5
                            /\ kb[i].source = "ukrainian_knowledge_base"
                  /\ pc = "done" /\ request.path = "get_knowledge_stats" =>
                        response.bodies[1].total_entries = 27

C16_Witness ==
    /\ pc = "done"
    /\ variant = "app"
    /\ env.raises = "none"
    /\ request.path = "get_knowledge_stats"
    /\ response.bodies[1].total_entries = Len(qa_model.knowledge_base)
    /\ response.bodies[1].categories["language"] = 7

AskFailed ==
    /\ AskDone /\ Delivered
    /\ ~Answered200

\* C18: the only distinction between error kinds on POST /api/ask is
\* present versus absent input: a request whose question is absent or empty
\* gets the required-field error, every other failing request gets the
\* response the reference failure gets, with status 500, and no failing
\* request is answered with success = true.
C18_OnlyPresentVsAbsent ==
    AskFailed =>
        /\ Len(response.bodies) = 1
        /\ "success" \in DOMAIN response.bodies[1] =>
              response.bodies[1].success = FALSE
        /\ IF EmptyQuestion(request)
           THEN response.bodies[1].error = RequiredError
           ELSE /\ response.statuses = <<500>>
                /\ response.bodies[1]
                      = (IF variant = "simple"
                         THEN do_POST(ReferenceFailure, <<>>)
                         ELSE ask_question(ReferenceFailure, <<>>, <<>>)).bodies[1]

\* The lower-cased question contains one of 'hello', 'hi', 'greetings' or
\* the Ukrainian greeting.
HasGreeting(q) ==
    \E w \in { <<"h", "e", "l", "l", "o">>, <<"h", "i">>,
               <<"u043f", "u0440", "u0438", "u0432", "u0456", "u0442">>,
               <<"g", "r", "e", "e", "t", "i", "n", "g", "s">> } :
        Contains(w, Lower(q))

\* The lower-cased question contains one of 'thank', 'thanks' or the
\* Ukrainian thanks.
HasThanks(q) ==
    \E w \in { <<"t", "h", "a", "n", "k">>, <<"t", "h", "a", "n", "k", "s">>,
               <<"u0434", "u044f", "u043a", "u0443", "u044e">> } :
        Contains(w, Lower(q))

\* The lower-cased question contains a keyword of some topic.
HasKeyword(q) ==
    \E i \in 1..Len(qa_system.knowledge_base) :
        \E k \in Range(qa_system.knowledge_base[i].keywords) :
            Contains(k, Lower(q))

\* C19: in the keyword variants, for every question non-empty after
\* stripping, the answer is the greeting reply when the lower-cased question
\* contains a greeting word, whatever else it contains; otherwise the thanks
\* reply when it contains a thanks word; only otherwise a topic answer or
\* the fallback.
C19_GreetingThenThanksThenTopic ==
    (AskDone /\ variant \in KeywordVariants /\ Delivered
        /\ NonEmptyQuestion(request)) =>
        LET q == request.question
            a == response.bodies[1].answer
        IN  /\ Answered200
            /\ HasGreeting(q) => a = GreetingReply
            /\ (~HasGreeting(q) /\ HasThanks(q)) => a = ThanksReply
            /\ (~HasGreeting(q) /\ ~HasThanks(q)) =>
                  /\ a \notin {GreetingReply, ThanksReply}
                  /\ \/ a = DefaultReply
                     \/ \E i \in 1..Len(qa_system.knowledge_base) :
                           a = qa_system.knowledge_base[i].answer

C19_Witness ==
    /\ AskDone /\ variant = "lightweight" /\ Delivered
    /\ HasGreeting(request.question)
    /\ HasThanks(request.question)
    /\ HasKeyword(request.question)
    /\ response.bodies[1].answer = GreetingReply

\* The number of keywords of topic i that occur in the lower-cased question
\* q, each keyword counted once.
TopicScore(i, q) ==
    Cardinality({ k \in Range(qa_system.knowledge_base[i].keywords) :
                    Contains(k, Lower(q)) })

\* A keyword variant has answered a question for which get_answer called
\* find_best_match.
MatchedDone ==
    /\ AskDone /\ variant \in KeywordVariants /\ Delivered
    /\ NonEmptyQuestion(request)
    /\ ~HasGreeting(request.question)
    /\ ~HasThanks(request.question)

\* C20: find_best_match returns a topic of maximal score, the score of a
\* topic being the number of its keywords that occur in the lower-cased
\* question; the earliest such topic in knowledge-base order when several
\* tie; and None exactly when every topic scores 0.
C20_BestMatchIsEarliestMaximum ==
    MatchedDone =>
        LET q == request.question
            n == Len(qa_system.knowledge_base)
            r == QaBestMatch(q)
        IN  /\ r \in 0..n
            /\ (r = 0) <=> (\A i \in 1..n : TopicScore(i, q) = 0)
            /\ r # 0 =>
                  /\ \A i \in 1..n : TopicScore(i, q) <= TopicScore(r, q)
                  /\ \A i \in 1..(r - 1) : TopicScore(i, q) < TopicScore(r, q)
                  /\ response.bodies[1].answer
                        = qa_system.knowledge_base[r].answer
            /\ r = 0 => response.bodies[1].answer = DefaultReply

C20_Witness ==
    /\ MatchedDone /\ variant = "lightweight"
    /\ \E i, j \in 1..Len(qa_system.knowledge_base) :
          /\ i < j
          /\ TopicScore(i, request.question) > 0
          /\ TopicScore(j, request.question) = TopicScore(i, request.question)
          /\ \A k \in 1..Len(qa_system.knowledge_base) :
                TopicScore(k, request.question) <= TopicScore(i, request.question)
          /\ \A k \in 1..(i - 1) :
                TopicScore(k, request.question) < TopicScore(i, request.question)
          /\ response.bodies[1].answer = qa_system.knowledge_base[i].answer

\* What the constructor leaves, seen from outside: model_ready is true
\* exactly when no step raised, and then every step has had its effect; a
\* health check reports model_ready.
ReadinessAsConstructed ==
    variant = "app" =>
        /\ qa_model.model_ready <=> (env.raises = "none")
        /\ qa_model.model_ready =>
              /\ qa_model.embedding_model
              /\ qa_model.knowledge_base # <<>>
              /\ qa_model.faiss_index # <<>>
              /\ env.OPENAI_API_KEY => qa_model.openai_client
        /\ HealthDone =>
              response.bodies[1].model_loaded = qa_model.model_ready

\* No step of the program assigns model_ready or changes the environment
\* the constructor ran in.
ReadinessUnchanged ==
    /\ qa_model'.model_ready = qa_model.model_ready
    /\ env' = env

\* C21: in the ML variant, readiness is fixed when the constructor returns:
\* model_ready is true only after a fully successful _initialize_model and
\* no get_answer, is_ready, get_knowledge_stats or HTTP request changes it,
\* so a server whose health check reports model_loaded = false reports
\* false on every later health check.
C21_ReadinessFixedAtConstruction ==
    /\ []ReadinessAsConstructed
    /\ [][ReadinessUnchanged]_vars

C21_Witness ==
    /\ HealthDone /\ variant = "app"
    /\ env.raises # "none"
    /\ response.statuses = <<200>>
    /\ response.bodies[1].model_loaded = FALSE
    /\ ~qa_model.model_ready

\* C22: in the ML variant, if a step of _initialize_model raises, the
\* constructor still returns, with model_ready false, and every later
\* get_answer returns the not-ready message without calling retrieval or
\* the completion API; when OPENAI_API_KEY is unset and the other steps
\* succeed, model_ready is true and there is no OpenAI client.
C22_FailedInitAnswersNotReady ==
    variant = "app" =>
        /\ env.raises # "none" =>
              /\ ~qa_model.model_ready
              /\ (AskDone /\ NonEmptyQuestion(request)) =>
                    /\ Answered200
                    /\ response.bodies[1].answer = NotReadyReply
                    /\ response.calls = <<"get_answer">>
        /\ (env.raises = "none" /\ ~env.OPENAI_API_KEY) =>
              /\ qa_model.model_ready
              /\ ~qa_model.openai_client

C22_Witness ==
    /\ AskDone /\ variant = "app"
    /\ NonEmptyQuestion(request)
    /\ env.raises = "faiss_index"
    /\ qa_model.knowledge_base # <<>>
    /\ response.bodies[1].answer = NotReadyReply

\* app.py has answered a non-empty question whose handling failed inside
\* the model: the model is not ready, or the completion API call raised.
ModelFailed ==
    /\ AskDone /\ variant = "app" /\ NonEmptyQuestion(request)
    /\ \/ ~qa_model.model_ready
       \/ "except" \in Range(response.calls)

KnowledgeTexts ==
    { qa_model.knowledge_base[i].text : i \in 1..Len(qa_model.knowledge_base) }

\* C24: in the ML variant, whenever the model is ready, what
\* _find_relevant_context returns is exactly top_k = 3 texts, each the text
\* of an entry of the knowledge list; so on a ready model without an OpenAI
\* client get_answer never returns the no-information message of
\* _get_local_answer: its answer is a prefix and three entry texts.
C24_ReadyModelRetrievesThree ==
    (variant = "app" /\ qa_model.model_ready) =>
        /\ \A context \in find_relevant_context(qa_model) :
              /\ Len(context) = 3
              /\ \A j \in 1..Len(context) : context[j] \in KnowledgeTexts
        /\ (AppAnsweredReady /\ ~qa_model.openai_client) =>
              LET a == response.bodies[1].answer
              IN  /\ a # NoContextReply
                  /\ Len(a) = 6
                  /\ \A j \in {2, 4, 6} : a[j] \in KnowledgeTexts
                  /\ \A j \in {3, 5} : a[j] = " "

C24_Witness ==
    /\ AppAnsweredReady
    /\ ~qa_model.openai_client
    /\ Len(response.bodies[1].answer) = 6
    /\ \E i \in 4..Len(qa_model.knowledge_base) :
          response.bodies[1].answer[2] = qa_model.knowledge_base[i].text

\* The lower-cased question ql contains 'language' or 'ukrainian'.
MentionsLanguage(ql) ==
    \/ Contains(<<"l", "a", "n", "g", "u", "a", "g", "e">>, ql)
    \/ Contains(<<"u", "k", "r", "a", "i", "n", "i", "a", "n">>, ql)

MentionsHistory(ql) == Contains(<<"h", "i", "s", "t", "o", "r", "y">>, ql)

MentionsCulture(ql) == Contains(<<"c", "u", "l", "t", "u", "r", "e">>, ql)

MentionsGeography(ql) ==
    Contains(<<"g", "e", "o", "g", "r", "a", "p", "h", "y">>, ql)

\* p is the prefix of the first test that holds on question q.
IsPrefixFor(p, q) ==
    LET ql == Lower(q)
        language  == MentionsLanguage(ql)
        history   == MentionsHistory(ql)
        culture   == MentionsCulture(ql)
        geography == MentionsGeography(ql)
    IN  /\ language => p = "Based on my knowledge: "
        /\ (~language /\ history) => p = "From Ukrainian history: "
        /\ (~language /\ ~history /\ culture) => p = "In Ukrainian culture: "
        /\ (~language /\ ~history /\ ~culture /\ geography) =>
              p = "Regarding Ukrainian geography: "
        /\ (~language /\ ~history /\ ~culture /\ ~geography) =>
              p = "Here's what I know about Ukraine: "

\* a is one prefix and then the texts of context with one space between
\* two of them.
IsJoined(a, context) ==
    /\ Len(a) = 2 * Len(context)
    /\ \A j \in 1..Len(context) : a[2 * j] = context[j]
    /\ \A j \in 1..(Len(context) - 1) : a[2 * j + 1] = " "

\* C25: _get_local_answer with a non-empty context returns the context
\* texts joined by single spaces behind one prefix, that of the first test
\* that holds on the lower-cased question in the order language or
\* ukrainian, history, culture, geography, otherwise; with an empty context
\* it returns the no-information message whatever the question.
C25_LocalAnswerPrefixOrder ==
    variant = "app" =>
        /\ pc = "idle" =>
              /\ get_local_answer(draft, <<>>) = NoContextReply
              /\ \A context \in { <<"a">>, <<"a", "b">> } :
                    /\ IsJoined(get_local_answer(draft, context), context)
                    /\ IsPrefixFor(get_local_answer(draft, context)[1], draft)
        /\ (AppAnsweredReady /\ ~qa_model.openai_client) =>
              /\ IsPrefixFor(response.bodies[1].answer[1], request.question)
              /\ \E context \in find_relevant_context(qa_model) :
                    IsJoined(response.bodies[1].answer, context)

\* A question that mentions geography before culture, answered with the
\* culture prefix.
C25_Witness ==
    /\ AppAnsweredReady /\ ~qa_model.openai_client
    /\ MentionsGeography(Lower(request.question))
    /\ MentionsCulture(Lower(request.question))
    /\ response.bodies[1].answer[1] = "In Ukrainian culture: "
    /\ response.bodies[1].answer[3] = " "

\* C26: in the standard-library variant, every POST /api/ask request gets
\* exactly one HTTP response: do_POST sends one status line per request,
\* and never a 500 status after the 200 status of the same request.
C26_OneStatusPerPost ==
    (AskDone /\ variant = "simple") =>
        /\ Len(response.statuses) = 1
        /\ ~\E i, j \in 1..Len(response.statuses) :
              /\ i < j
              /\ response.statuses[i] = 200
              /\ response.statuses[j] = 500
        /\ ~response.escaped

====
